---------------------------- MODULE Spec2Model ----------------------------
(***************************************************************************)
(* Model of the tick pipeline of the trading relay service:                *)
(*   src/validators.py  validate_tick_payload                              *)
(*   src/aitool.py      AITradingTool.evaluate_portfolio                   *)
(*   src/business.py    analyze_tick and the persistence/forwarding helpers*)
(*   src/app.py         the /tick/<trade_id> handler                       *)
(*                                                                         *)
(* JSON values are tagged records (field jt is the Python type json.loads  *)
(* produces).  An int holds its value; a float holds its value in          *)
(* hundredths (180.0 is JFloat(18000)), which is the precision round(x, 2) *)
(* keeps.                                                                  *)
(***************************************************************************)
EXTENDS Integers, Sequences, FiniteSets, TLC

VARIABLES
    pc,                 \* position of the tick in flight
    body,               \* request.get_json() of the tick in flight
    trade_id,           \* the <trade_id> of the request path
    validation,         \* (is_valid, error_message) of app.tick
    summary,            \* positions_evaluated / total_unrealized_pnl of analyze_tick
    ai_success,         \* analyze_tick's ai_success
    llm_result,         \* what evaluate_portfolio came to: raised, empty, nonempty
    recommendations,    \* analyze_tick's recommendations
    updated_positions,  \* analyze_tick's updated_positions (make_trade's result)
    trade,              \* what became of this tick's trade-execution call
    posted,             \* the trades this tick posted to the execution service
    llm_calls,          \* LLM requests issued by this tick
    snapshot_writes,    \* writes of POSITIONS_FILE by this tick
    positions_file,     \* content of POSITIONS_FILE
    history_file,       \* content of TRADING_HISTORY_FILE
    history_before,     \* content of TRADING_HISTORY_FILE when this tick began
    logged,             \* recommendations logged since start (sum of the k_i)
    ticks,              \* ticks received so far
    response,           \* HTTP response of the last finished tick
    eval_in,            \* evaluate_portfolio harness: the LLM outcome
    eval_out,           \* evaluate_portfolio harness: what it returned
    log_result,         \* log_ai_recommendations called alone: returned or raised
    dashboard,          \* what get_dashboard_data returned
    loggers             \* concurrent calls of log_ai_recommendations: per caller,
                        \* its position, recommendations and local history

vars == <<pc, body, trade_id, validation, summary, ai_success, llm_result,
          recommendations,
          updated_positions, trade, posted, llm_calls, snapshot_writes,
          positions_file, history_file, history_before, logged, ticks,
          response, eval_in, eval_out, log_result, dashboard, loggers>>

\* the variables of the persistence functions taken on their own
store_vars == <<log_result, dashboard, loggers>>

-----------------------------------------------------------------------------
(* JSON values *)

JNull == [jt |-> "null"]
JBool(b) == [jt |-> "bool", b |-> b]
JInt(n) == [jt |-> "int", n |-> n]
JFloat(h) == [jt |-> "float", n |-> h]
JStr(s) == [jt |-> "str", s |-> s]
JList(l) == [jt |-> "list", l |-> l]
JObj(o) == [jt |-> "obj", o |-> o]
EmptyObj == JObj(<<>>)

\* Python's None where it is not a JSON null read from a document
None == [jt |-> "None"]

\* two decimals: the unit of a float is 1/Scale
Scale == 100

IsDict(v) == v.jt = "obj"
IsList(v) == v.jt = "list"
IsStr(v) == v.jt = "str"
\* isinstance(x, (int, float)): bool is a subclass of int
IsIntOrFloat(v) == v.jt \in {"int", "float", "bool"}
\* isinstance(x, (int, str))
IsIntOrStr(v) == v.jt \in {"int", "bool", "str"}
Has(v, k) == k \in DOMAIN v.o

-----------------------------------------------------------------------------
(* validators.py *)

Ok == [ok |-> TRUE, msg |-> <<"">>]
Fail(m) == [ok |-> FALSE, msg |-> m]

\* the loop body of lines 25-43: "" when the element passes
PositionError(pos) ==
    IF ~IsDict(pos) THEN "Position at index {i} must be an object"
    ELSE IF ~Has(pos, "ticker") THEN "Position at index {i} missing 'ticker'"
    ELSE IF ~Has(pos, "quantity") THEN "Position at index {i} missing 'quantity'"
    ELSE IF ~Has(pos, "purchase_price") THEN "Position at index {i} missing 'purchase_price'"
    ELSE IF ~IsStr(pos.o.ticker) THEN "Position at index {i}: 'ticker' must be a string"
    ELSE IF ~IsIntOrFloat(pos.o.quantity) THEN "Position at index {i}: 'quantity' must be a number"
    ELSE IF ~IsIntOrFloat(pos.o.purchase_price) THEN "Position at index {i}: 'purchase_price' must be a number"
    ELSE ""

\* the loop body of lines 56-74
SummaryError(item) ==
    IF ~IsDict(item) THEN "Market_Summary item at index {i} must be an object"
    ELSE IF ~Has(item, "ticker") THEN "Market_Summary at index {i} missing 'ticker'"
    ELSE IF ~Has(item, "current_price") THEN "Market_Summary at index {i} missing 'current_price'"
    ELSE IF ~Has(item, "category") THEN "Market_Summary at index {i} missing 'category'"
    ELSE IF ~IsStr(item.o.ticker) THEN "Market_Summary at index {i}: 'ticker' must be a string"
    ELSE IF ~IsIntOrFloat(item.o.current_price) THEN "Market_Summary at index {i}: 'current_price' must be a number"
    ELSE IF ~IsStr(item.o.category) THEN "Market_Summary at index {i}: 'category' must be a string"
    ELSE ""

\* the loop body of lines 87-106
HistoryError(item) ==
    IF ~IsDict(item) THEN "market_history item at index {i} must be an object"
    ELSE IF ~Has(item, "ticker") THEN "market_history at index {i} missing 'ticker'"
    ELSE IF ~Has(item, "price") THEN "market_history at index {i} missing 'price'"
    ELSE IF ~Has(item, "day") THEN "market_history at index {i} missing 'day'"
    ELSE IF ~IsStr(item.o.ticker) THEN "market_history at index {i}: 'ticker' must be a string"
    ELSE IF ~IsIntOrFloat(item.o.price) THEN "market_history at index {i}: 'price' must be a number"
    ELSE IF ~IsIntOrStr(item.o.day) THEN "market_history at index {i}: 'day' must be a string or integer"
    ELSE ""

\* for i, x in enumerate(...): the first element with an error, as
\* <<message, i>> (i counted from 0), or <<>> when every element passes
FirstError(errs) ==
    IF \A i \in 1..Len(errs) : errs[i] = "" THEN <<>>
    ELSE LET i == CHOOSE j \in 1..Len(errs) :
                      /\ errs[j] # ""
                      /\ \A k \in 1..(j - 1) : errs[k] = ""
         IN  <<errs[i], i - 1>>

PositionsCheck(payload) ==
    IF ~Has(payload, "Positions") THEN <<"Missing required field: Positions">>
    ELSE IF ~IsList(payload.o.Positions) THEN <<"Positions must be a list">>
    ELSE IF Len(payload.o.Positions.l) = 0 THEN <<"Positions must be a non-empty list">>
    ELSE FirstError([i \in 1..Len(payload.o.Positions.l) |->
                        PositionError(payload.o.Positions.l[i])])

MarketSummaryCheck(payload) ==
    IF ~Has(payload, "Market_Summary") THEN <<"Missing required field: Market_Summary">>
    ELSE IF ~IsList(payload.o.Market_Summary) THEN <<"Market_Summary must be a list">>
    ELSE IF Len(payload.o.Market_Summary.l) = 0 THEN <<"Market Summary must be a non-empty list">>
    ELSE FirstError([i \in 1..Len(payload.o.Market_Summary.l) |->
                        SummaryError(payload.o.Market_Summary.l[i])])

MarketHistoryCheck(payload) ==
    IF ~Has(payload, "market_history") THEN <<"Missing required field: market_history">>
    ELSE IF ~IsList(payload.o.market_history) THEN <<"market_history must be a list">>
    ELSE IF Len(payload.o.market_history.l) = 0 THEN <<"market_history must be a non-empty list">>
    ELSE FirstError([i \in 1..Len(payload.o.market_history.l) |->
                        HistoryError(payload.o.market_history.l[i])])

DayCheck(payload) ==
    IF Has(payload, "DAY") /\ ~IsStr(payload.o.DAY)
    THEN <<"DAY must be a string in 'yyyy-mm-dd' format">>
    ELSE <<>>

validate_tick_payload(payload) ==
    IF ~IsDict(payload) THEN Fail(<<"Payload must be a JSON object">>)
    ELSE IF PositionsCheck(payload) # <<>> THEN Fail(PositionsCheck(payload))
    ELSE IF MarketSummaryCheck(payload) # <<>> THEN Fail(MarketSummaryCheck(payload))
    ELSE IF MarketHistoryCheck(payload) # <<>> THEN Fail(MarketHistoryCheck(payload))
    ELSE IF DayCheck(payload) # <<>> THEN Fail(DayCheck(payload))
    ELSE Ok


-----------------------------------------------------------------------------
(* Python built-ins used by aitool.py and business.py *)

\* x / d rounded to the nearest integer, a tie going to the even one (as
\* round does when the float is the tie exactly)
RoundDiv(x, d) ==
    LET q == x \div d
        r == x % d
    IN  IF 2 * r < d THEN q
        ELSE IF 2 * r > d THEN q + 1
        ELSE IF q % 2 = 0 THEN q ELSE q + 1

\* the value of a number in hundredths (True is 1, False is 0)
Hundredths(v) ==
    IF v.jt = "float" THEN v.n
    ELSE IF v.jt = "int" THEN v.n * Scale
    ELSE IF v.b THEN Scale ELSE 0

\* bool(x)
Truthy(v) ==
    IF v.jt \in {"None", "null"} THEN FALSE
    ELSE IF v.jt = "bool" THEN v.b
    ELSE IF v.jt \in {"int", "float"} THEN v.n # 0
    ELSE IF v.jt = "str" THEN v.s # ""
    ELSE IF v.jt = "list" THEN Len(v.l) > 0
    ELSE DOMAIN v.o # {}

\* str.upper() on the strings the model uses
UpperTable ==
    [sell |-> "SELL", Sell |-> "SELL", buy |-> "BUY", stay |-> "STAY",
     hold |-> "HOLD", None |-> "NONE", True |-> "TRUE"]
Upper(s) == IF s \in DOMAIN UpperTable THEN UpperTable[s] ELSE s

\* str.strip() on the strings the model uses
StripTable ==
    (" AAPL " :> "AAPL") @@ ("MSFT " :> "MSFT") @@ ("  " :> "")
Strip(s) == IF s \in DOMAIN StripTable THEN StripTable[s] ELSE s

\* int(s) for the strings that parse; any other string raises ValueError
IntOfString ==
    ("5" :> 5) @@ (" 7 " :> 7) @@ ("-3" :> -3) @@ ("0" :> 0)

\* str(x)
PyStr(v) ==
    IF v.jt = "str" THEN v.s
    ELSE IF v.jt = "null" THEN "None"
    ELSE IF v.jt = "bool" THEN (IF v.b THEN "True" ELSE "False")
    ELSE IF v.jt = "int" /\ v.n = 5 THEN "5"
    ELSE "<repr>"

\* int(x): [ok, n]; ok is FALSE when int raises ValueError or TypeError
PyInt(v) ==
    IF v.jt = "int" THEN [ok |-> TRUE, n |-> v.n]
    ELSE IF v.jt = "bool" THEN [ok |-> TRUE, n |-> IF v.b THEN 1 ELSE 0]
    ELSE IF v.jt = "float"
         THEN [ok |-> TRUE, n |-> IF v.n >= 0 THEN v.n \div Scale ELSE -((-v.n) \div Scale)]
    ELSE IF v.jt = "str" /\ v.s \in DOMAIN IntOfString
         THEN [ok |-> TRUE, n |-> IntOfString[v.s]]
    ELSE [ok |-> FALSE, n |-> 0]

\* d.get(k, default)
Get(d, k, default) == IF Has(d, k) THEN d.o[k] ELSE default

-----------------------------------------------------------------------------
(* aitool.py: AITradingTool.evaluate_portfolio *)

\* what the chat-completion request comes to
LlmException == [kind |-> "exception"]
LlmResponse(calls) == [kind |-> "response", tool_calls |-> calls]

\* a tool call; arguments is None (no text), BadJson (text json.loads
\* rejects) or the value json.loads returns
BadJson == [jt |-> "badjson"]
ToolCall(name, arguments) == [type |-> "function", name |-> name, arguments |-> arguments]

\* an element of the recommendations argument
Item(action, ticker, quantity) ==
    JObj([action |-> action, ticker |-> ticker, quantity |-> quantity])

\* a set_recommendations call whose arguments hold the list items
SetRecommendations(items) ==
    ToolCall("set_recommendations", JObj([recommendations |-> JList(items)]))

\* lines 218-220 for one item: item.get raises on a non-dict, int on an
\* unparseable quantity
ItemRaises(item) ==
    \/ ~IsDict(item)
    \/ ~PyInt(Get(item, "quantity", JInt(0))).ok

NormalizeItem(item) ==
    [action |-> Upper(PyStr(Get(item, "action", JStr("")))),
     ticker |-> Strip(PyStr(Get(item, "ticker", JStr("")))),
     quantity |-> PyInt(Get(item, "quantity", JInt(0))).n]

\* lines 211-227 for one call: the value of recommendations after it
AfterCall(call, recs_so_far) ==
    IF ~(call.type = "function" /\ call.name = "set_recommendations") THEN recs_so_far
    ELSE IF call.arguments = BadJson THEN recs_so_far
    ELSE LET args == IF call.arguments = None \/ call.arguments = JStr("")
                     THEN EmptyObj ELSE call.arguments
         IN  IF ~IsDict(args) THEN recs_so_far
             ELSE LET recs == Get(args, "recommendations", JList(<<>>))
                  IN  IF ~IsList(recs) THEN recs_so_far
                      ELSE IF \E i \in 1..Len(recs.l) : ItemRaises(recs.l[i])
                           THEN recs_so_far
                      ELSE [i \in 1..Len(recs.l) |-> NormalizeItem(recs.l[i])]

RECURSIVE AfterCalls(_, _, _)
\* the loop of line 209 from call i on
AfterCalls(calls, i, recs_so_far) ==
    IF i > Len(calls) THEN recs_so_far
    ELSE AfterCalls(calls, i + 1, AfterCall(calls[i], recs_so_far))

\* [raised, recs]: the request raising, or the list returned
evaluate_portfolio(llm) ==
    IF llm.kind = "exception" THEN [raised |-> TRUE, recs |-> <<>>]
    ELSE [raised |-> FALSE, recs |-> AfterCalls(llm.tool_calls, 1, <<>>)]

-----------------------------------------------------------------------------
(* business.py: persistence *)

\* a file: missing, holding text json.load rejects, or holding a document
Missing == [ft |-> "missing"]
Corrupt == [ft |-> "corrupt"]
JsonFile(doc) == [ft |-> "json", doc |-> doc]

\* {item['ticker']: item['current_price'] for item in market_summary}
\* followed by .get(ticker, default): a later entry replaces an earlier one
PriceOf(market_summary, ticker, default) ==
    LET hits == {i \in 1..Len(market_summary) : market_summary[i].o.ticker = ticker}
    IN  IF hits = {} THEN default
        ELSE market_summary[CHOOSE i \in hits : \A j \in hits : j <= i].o.current_price

IsPyInt(v) == v.jt \in {"int", "bool"}
IntValue(v) == IF v.jt = "int" THEN v.n ELSE IF v.b THEN 1 ELSE 0

\* round((current_price - purchase_price) * quantity, 2): an int when the
\* three are ints, else a float of two decimals
RoundedPnl(current_price, purchase_price, quantity) ==
    IF IsPyInt(current_price) /\ IsPyInt(purchase_price) /\ IsPyInt(quantity)
    THEN JInt((IntValue(current_price) - IntValue(purchase_price)) * IntValue(quantity))
    ELSE JFloat(RoundDiv((Hundredths(current_price) - Hundredths(purchase_price))
                            * Hundredths(quantity), Scale))

\* one element of positions_data
PositionRow(position, market_summary) ==
    LET current_price ==
            PriceOf(market_summary, position.o.ticker, position.o.purchase_price)
    IN  JObj([ticker |-> position.o.ticker,
              quantity |-> position.o.quantity,
              purchase_price |-> position.o.purchase_price,
              current_price |-> current_price,
              unrealized_pnl |->
                  RoundedPnl(current_price, position.o.purchase_price, position.o.quantity)])

\* save_positions with the market prices left out
SavePositionsWithoutMarket(payload) ==
    LET positions == Get(payload, "Positions", JList(<<>>)).l
    IN  JList([i \in 1..Len(positions) |-> PositionRow(positions[i], <<>>)])

\* the document save_positions writes to POSITIONS_FILE
save_positions(payload) ==
    LET positions == Get(payload, "Positions", JList(<<>>)).l
        market_summary == Get(payload, "Market_Summary", JList(<<>>)).l
    IN  JList([i \in 1..Len(positions) |-> PositionRow(positions[i], market_summary)])

\* update_positions_from_api raises before it opens the file: iterating a
\* non-list, subscripting a non-dict, a missing key, an unhashable ticker,
\* arithmetic on a non-number
UpdateRaises(api_positions) ==
    \/ ~IsList(api_positions)
    \/ \E i \in 1..Len(api_positions.l) :
          LET position == api_positions.l[i]
          IN  \/ ~IsDict(position)
              \/ ~({"ticker", "quantity", "purchase_price"} \subseteq DOMAIN position.o)
              \/ position.o.ticker.jt \in {"list", "obj"}
              \/ ~IsIntOrFloat(position.o.quantity)
              \/ ~IsIntOrFloat(position.o.purchase_price)

\* the document update_positions_from_api writes to POSITIONS_FILE
update_positions_from_api(api_positions, market_summary) ==
    JList([i \in 1..Len(api_positions.l) |-> PositionRow(api_positions.l[i], market_summary)])

\* the history list log_ai_recommendations starts from (lines 72-78)
LoadHistory(file) == IF file.ft = "json" THEN file.doc ELSE JList(<<>>)

\* a transaction that carries the quantity whatever its value
TransactionWithQuantity(rec, date_str, market_summary) ==
    [date |-> date_str,
     ticker |-> rec.ticker,
     action |-> rec.action,
     price |-> PriceOf(market_summary, JStr(rec.ticker), JFloat(0)),
     note |-> <<"AI recommendation: {} {} shares", rec.action, rec.quantity>>,
     quantity |-> rec.quantity]

\* one transaction (lines 85-97); quantity only when it is > 0
Transaction(rec, date_str, market_summary) ==
    LET base == [date |-> date_str,
                 ticker |-> rec.ticker,
                 action |-> rec.action,
                 price |-> PriceOf(market_summary, JStr(rec.ticker), JFloat(0)),
                 note |-> <<"AI recommendation: {} {} shares", rec.action, rec.quantity>>]
    IN  IF rec.quantity > 0 THEN base @@ [quantity |-> rec.quantity] ELSE base

\* history.append on what json.load returned works on a list only
LogRaises(file) == ~IsList(LoadHistory(file))

\* log_ai_recommendations that does not load the existing history
LogWithoutLoading(file, recs, date_str, market_summary) ==
    JList([i \in 1..Len(recs) |-> Transaction(recs[i], date_str, market_summary)])

\* the document log_ai_recommendations writes to TRADING_HISTORY_FILE
log_ai_recommendations(file, recs, date_str, market_summary) ==
    JList(LoadHistory(file).l \o
          [i \in 1..Len(recs) |-> Transaction(recs[i], date_str, market_summary)])

\* the loop of history.append started from an empty list instead of the
\* history that was loaded
AppendedToNothing(history, recs, date_str, market_summary) ==
    JList([i \in 1..Len(recs) |-> Transaction(recs[i], date_str, market_summary)])

\* lines 81-99: the in-memory history after the loop of history.append
Appended(history, recs, date_str, market_summary) ==
    JList(history.l \o
          [i \in 1..Len(recs) |-> Transaction(recs[i], date_str, market_summary)])

\* lines 290-307: what get_dashboard_data reads from a file
LoadOrEmpty(file) == IF file.ft = "json" THEN file.doc ELSE JList(<<>>)

\* the value get_dashboard_data returns
get_dashboard_data(positions, history) ==
    [positions |-> LoadOrEmpty(positions), trading_history |-> LoadOrEmpty(history)]

-----------------------------------------------------------------------------
(* business.py: make_trade *)

\* what the execution service call comes to
NoApiKey == [kind |-> "no_api_key"]
NetworkError == [kind |-> "network_error"]
HttpResponse(status, json) == [kind |-> "http", status |-> status, json |-> json]

\* lines 122-133: the body posted
TradePayload(id, recs) ==
    [id |-> id,
     trades |-> [i \in 1..Len(recs) |->
                    [action |-> recs[i].action, ticker |-> recs[i].ticker,
                     quantity |-> recs[i].quantity]]]

\* whether requests.post is reached
Posts(service) == service.kind # "no_api_key"

\* the value make_trade returns
make_trade(service) ==
    IF service.kind # "http" THEN None
    ELSE IF service.status # 200 THEN None
    ELSE IF service.json = BadJson THEN None
    ELSE IF ~IsDict(service.json) THEN None
    ELSE IF ~Has(service.json, "Positions") THEN JList(<<>>)
    ELSE IF service.json.o.Positions = JNull THEN None
    ELSE service.json.o.Positions

\* whether make_trade took a failure path: no key, a status other than 200,
\* or an exception inside the try (no answer, a body that is not JSON, a
\* JSON body that is not an object)
TradeFailed(service) ==
    \/ service.kind # "http"
    \/ service.status # 200
    \/ service.json = BadJson
    \/ ~IsDict(service.json)

-----------------------------------------------------------------------------
(* business.py: analyze_tick *)

\* datetime.now().strftime('%Y-%m-%d')
Today == JStr("<today>")

\* lines 216-232
RECURSIVE Accumulate(_, _, _, _)
Accumulate(positions, market_summary, i, acc) ==
    IF i > Len(positions) THEN acc
    ELSE LET position == positions[i]
             hit == \E j \in 1..Len(market_summary) :
                        market_summary[j].o.ticker = position.o.ticker
             current_price == PriceOf(market_summary, position.o.ticker, JNull)
             position_pnl == (Hundredths(current_price) - Hundredths(position.o.purchase_price))
                                * Hundredths(position.o.quantity)
         IN  Accumulate(positions, market_summary, i + 1,
                IF hit
                THEN [positions_evaluated |-> acc.positions_evaluated + 1,
                      total_unrealized_pnl |-> acc.total_unrealized_pnl + position_pnl]
                ELSE acc)

\* the accounting loop with CASH positions left out
AccountingWithoutCash(payload) ==
    LET NotCash(p) == p.o.ticker # JStr("CASH")
    IN  Accumulate(SelectSeq(Get(payload, "Positions", JList(<<>>)).l, NotCash),
                   Get(payload, "Market_Summary", JList(<<>>)).l, 1,
                   [positions_evaluated |-> 0, total_unrealized_pnl |-> 0])

\* positions_evaluated and total_unrealized_pnl (in 1/Scale^2) after the loop
Accounting(payload) ==
    Accumulate(Get(payload, "Positions", JList(<<>>)).l,
               Get(payload, "Market_Summary", JList(<<>>)).l, 1,
               [positions_evaluated |-> 0, total_unrealized_pnl |-> 0])

\* lines 249-255: STAY 0 for every position that is not CASH
RECURSIVE FallbackFrom(_, _)
FallbackFrom(positions, i) ==
    IF i > Len(positions) THEN <<>>
    ELSE (IF positions[i].o.ticker # JStr("CASH")
          THEN <<[action |-> "STAY", ticker |-> positions[i].o.ticker.s, quantity |-> 0]>>
          ELSE <<>>) \o FallbackFrom(positions, i + 1)

Fallback(payload) == FallbackFrom(Get(payload, "Positions", JList(<<>>)).l, 1)

\* line 258
DateStr(payload) == Get(payload, "DAY", Today)

\* lines 278-285
SuccessResult(acc) ==
    [result |-> "success",
     summary |-> [positions_evaluated |-> acc.positions_evaluated,
                  unrealized_pnl |-> JFloat(RoundDiv(acc.total_unrealized_pnl, Scale))],
     decisions |-> <<>>]

-----------------------------------------------------------------------------
(* Input sets of the validator *)

Absent == [jt |-> "absent"]

\* obj with key k set to v / with key k removed
With(obj, k, v) == JObj([x \in DOMAIN obj.o |-> IF x = k THEN v ELSE obj.o[x]])
Without(obj, k) == JObj([x \in DOMAIN obj.o \ {k} |-> obj.o[x]])

\* the object with the present members among the four top-level keys
Payload(P, S, H, D) ==
    LET all == [Positions |-> P, Market_Summary |-> S, market_history |-> H, DAY |-> D]
    IN  JObj([k \in {x \in DOMAIN all : all[x] # Absent} |-> all[k]])

GoodPosition ==
    JObj([ticker |-> JStr("AAPL"), quantity |-> JInt(10), purchase_price |-> JFloat(18000)])
GoodSummary ==
    JObj([ticker |-> JStr("AAPL"), current_price |-> JFloat(18250), category |-> JStr("high")])
GoodHistory ==
    JObj([ticker |-> JStr("AAPL"), price |-> JFloat(17980), day |-> JInt(1)])

\* one value of every JSON type
FieldValues == {JNull, JBool(TRUE), JInt(1), JFloat(150), JStr("x"), JList(<<>>), EmptyObj}

\* good: the element, each field replaced by each JSON type, each key
\* removed, and every non-object
ElementsAround(good) ==
    {good}
    \cup {With(good, k, v) : k \in DOMAIN good.o, v \in FieldValues}
    \cup {Without(good, k) : k \in DOMAIN good.o}
    \cup FieldValues

\* a section: absent, not a list, empty, one element, a good element then another
SectionsAround(good) ==
    {Absent} \cup FieldValues
    \cup {JList(<<e>>) : e \in ElementsAround(good)}
    \cup {JList(<<good, e>>) : e \in ElementsAround(good)}

\* a few broken sections, to combine several violations in one payload
BrokenOrGood(good) ==
    {JList(<<good>>), Absent, JList(<<>>), JList(<<With(good, "ticker", JInt(1))>>)}

DayValues == {Absent} \cup FieldValues \cup {JStr("2025-01-02")}

ValidateInputs ==
    FieldValues
    \cup {Payload(P, JList(<<GoodSummary>>), JList(<<GoodHistory>>), Absent) :
            P \in SectionsAround(GoodPosition)}
    \cup {Payload(JList(<<GoodPosition>>), S, JList(<<GoodHistory>>), Absent) :
            S \in SectionsAround(GoodSummary)}
    \cup {Payload(JList(<<GoodPosition>>), JList(<<GoodSummary>>), H, Absent) :
            H \in SectionsAround(GoodHistory)}
    \cup {Payload(JList(<<GoodPosition>>), JList(<<GoodSummary>>), JList(<<GoodHistory>>), D) :
            D \in DayValues}
    \cup {Payload(P, S, H, D) :
            P \in BrokenOrGood(GoodPosition), S \in BrokenOrGood(GoodSummary),
            H \in BrokenOrGood(GoodHistory), D \in {Absent, JInt(3), JStr("2025-01-02")}}

-----------------------------------------------------------------------------
(* The validator on its own: SpecValidate *)

NoResponse == [status |-> 0]
NoValidation == [ok |-> FALSE, msg |-> <<"not validated">>]
NoSummary == [positions_evaluated |-> 0, total_unrealized_pnl |-> 0]

\* the variables of the tick pipeline, at rest
PipelineAtRest ==
    /\ summary = NoSummary
    /\ ai_success = FALSE
    /\ llm_result = "none"
    /\ recommendations = <<>>
    /\ updated_positions = None
    /\ trade = "not_called"
    /\ posted = None
    /\ llm_calls = 0
    /\ snapshot_writes = 0
    /\ positions_file = Missing
    /\ history_file = Missing
    /\ history_before = Missing
    /\ logged = 0
    /\ ticks = 0
    /\ response = NoResponse

\* the two requests whose calls of log_ai_recommendations may overlap
Loggers == {"tick-1", "tick-2"}

\* a request that has not entered log_ai_recommendations
NotLogging == [pc |-> "idle", recommendations |-> <<>>, loaded |-> None, history |-> None]

\* the variables of the persistence functions, at rest
StoreAtRest ==
    /\ log_result = "none"
    /\ dashboard = None
    /\ loggers = [t \in Loggers |-> NotLogging]

pipeline_vars ==
    <<summary, ai_success, llm_result, recommendations, updated_positions, trade,
      posted, llm_calls, snapshot_writes, positions_file, history_file, history_before,
      logged, ticks, response>>

InitValidate ==
    /\ pc = "validate"
    /\ body \in ValidateInputs
    /\ trade_id = ""
    /\ validation = NoValidation
    /\ eval_in = None
    /\ eval_out = None
    /\ PipelineAtRest
    /\ StoreAtRest

Validate ==
    /\ pc = "validate"
    /\ validation' = validate_tick_payload(body)
    /\ pc' = "validated"
    /\ UNCHANGED <<body, trade_id, eval_in, eval_out, pipeline_vars, store_vars>>

NextValidate == Validate

SpecValidate == InitValidate /\ [][NextValidate]_vars

-----------------------------------------------------------------------------
(* evaluate_portfolio on its own: SpecEval *)

\* items of a recommendations argument, well-formed and not
ItemPool ==
    {Item(JStr("sell"), JStr(" AAPL "), JStr("5")),
     Item(JStr("BUY"), JStr("MSFT"), JInt(2)),
     Item(JStr("hold"), JStr("AAPL"), JInt(-1)),
     Item(JStr("STAY"), JStr("AAPL"), JStr("abc")),
     Item(JStr("BUY"), JStr("MSFT"), JNull),
     Item(JStr("BUY"), JStr("MSFT "), JFloat(270)),
     Item(JNull, JInt(5), JBool(TRUE)),
     JObj([action |-> JStr("stay")]),
     JStr("SELL AAPL")}

ItemLists ==
    {<<>>} \cup {<<a>> : a \in ItemPool} \cup {<<a, b>> : a \in ItemPool, b \in ItemPool}

\* calls that carry no usable list
OddCalls ==
    {ToolCall("get_quote", JObj([recommendations |-> JList(<<Item(JStr("SELL"), JStr("AAPL"), JInt(1))>>)])),
     [type |-> "custom", name |-> "set_recommendations", arguments |-> EmptyObj],
     ToolCall("set_recommendations", None),
     ToolCall("set_recommendations", BadJson),
     ToolCall("set_recommendations", JNull),
     ToolCall("set_recommendations", JList(<<>>)),
     ToolCall("set_recommendations", EmptyObj),
     ToolCall("set_recommendations", JObj([recommendations |-> JStr("none")]))}

\* calls combined two by two
PairCalls ==
    OddCalls
    \cup {SetRecommendations(<<Item(JStr("sell"), JStr(" AAPL "), JStr("5"))>>),
          SetRecommendations(<<Item(JStr("BUY"), JStr("MSFT"), JInt(2))>>),
          SetRecommendations(<<Item(JStr("STAY"), JStr("AAPL"), JStr("abc"))>>),
          SetRecommendations(<<>>)}

EvalInputs ==
    {LlmException, LlmResponse(<<>>)}
    \cup {LlmResponse(<<c>>) : c \in OddCalls}
    \cup {LlmResponse(<<SetRecommendations(l)>>) : l \in ItemLists}
    \cup {LlmResponse(<<c, d>>) : c \in PairCalls, d \in PairCalls}

InitEval ==
    /\ pc = "evaluate"
    /\ eval_in \in EvalInputs
    /\ eval_out = None
    /\ body = None
    /\ trade_id = ""
    /\ validation = NoValidation
    /\ PipelineAtRest
    /\ StoreAtRest

Evaluate ==
    /\ pc = "evaluate"
    /\ eval_out' = evaluate_portfolio(eval_in)
    /\ pc' = "evaluated"
    /\ UNCHANGED <<body, trade_id, validation, eval_in, pipeline_vars, store_vars>>

NextEval == Evaluate

SpecEval == InitEval /\ [][NextEval]_vars

-----------------------------------------------------------------------------
(* Inputs of the tick pipeline *)

MaxTicks == 2

Position(ticker, quantity, purchase_price) ==
    JObj([ticker |-> JStr(ticker), quantity |-> quantity, purchase_price |-> purchase_price])
SummaryEntry(ticker, current_price, category) ==
    JObj([ticker |-> JStr(ticker), current_price |-> current_price, category |-> JStr(category)])

\* 0.3 MSFT bought at 1.00 makes a P&L that round(x, 2) changes
PositionLists ==
    {<<Position("AAPL", JInt(10), JFloat(18000))>>,
     <<Position("AAPL", JInt(10), JInt(180)), Position("CASH", JInt(1000), JInt(1))>>,
     <<Position("CASH", JFloat(100000), JFloat(100))>>,
     <<Position("MSFT", JFloat(30), JFloat(100)), Position("AAPL", JInt(10), JFloat(18000))>>}

SummaryLists ==
    {<<SummaryEntry("AAPL", JFloat(18300), "high")>>,
     <<SummaryEntry("MSFT", JFloat(101), "low"), SummaryEntry("AAPL", JFloat(18250), "high")>>,
     <<SummaryEntry("CASH", JInt(2), "low"), SummaryEntry("AAPL", JInt(182), "high")>>,
     <<SummaryEntry("AAPL", JFloat(17000), "high"), SummaryEntry("AAPL", JFloat(18250), "high")>>}

ValidBodies ==
    {Payload(JList(P), JList(S), JList(<<GoodHistory>>), Absent) :
        P \in PositionLists, S \in SummaryLists}
    \cup {Payload(JList(<<GoodPosition>>), JList(<<GoodSummary>>), JList(<<GoodHistory>>),
                  JStr("2025-01-02"))}

\* bodies the validator rejects
InvalidBodies ==
    {JStr("tick"),
     JList(<<GoodPosition>>),
     Payload(Absent, JList(<<GoodSummary>>), JList(<<GoodHistory>>), Absent),
     Payload(JList(<<>>), JList(<<GoodSummary>>), JList(<<GoodHistory>>), Absent),
     Payload(JList(<<GoodPosition>>), JList(<<GoodSummary>>), Absent, Absent),
     Payload(JList(<<GoodPosition>>), JList(<<GoodSummary>>), JList(<<GoodHistory>>), JInt(3))}

Bodies == ValidBodies \cup InvalidBodies

TradeIds == {"trade-1"}

LlmOutcomes ==
    {LlmException,
     LlmResponse(<<>>),
     LlmResponse(<<ToolCall("set_recommendations", BadJson)>>),
     LlmResponse(<<SetRecommendations(<<>>)>>),
     LlmResponse(<<SetRecommendations(<<Item(JStr("sell"), JStr(" AAPL "), JStr("5"))>>)>>),
     LlmResponse(<<SetRecommendations(<<Item(JStr("BUY"), JStr("MSFT"), JInt(2)),
                                        Item(JStr("hold"), JStr("AAPL"), JInt(-1))>>)>>),
     LlmResponse(<<SetRecommendations(<<Item(JStr("STAY"), JStr("AAPL"), JInt(0)),
                                        Item(JStr("BUY"), JStr("MSFT"), JStr("abc"))>>)>>)}

ServiceOutcomes ==
    {NoApiKey,
     NetworkError,
     HttpResponse(500, BadJson),
     HttpResponse(200, BadJson),
     HttpResponse(200, JList(<<>>)),
     HttpResponse(200, EmptyObj),
     HttpResponse(200, JObj([Positions |-> JNull])),
     HttpResponse(200, JObj([Positions |-> JList(<<>>)])),
     HttpResponse(200, JObj([Positions |-> JList(<<Position("AAPL", JInt(5), JFloat(18000))>>)])),
     HttpResponse(200, JObj([Positions |-> JList(<<Position("MSFT", JInt(2), JFloat(101)),
                                                   Position("CASH", JFloat(99798), JInt(1))>>)])),
     HttpResponse(200, JObj([Positions |-> JList(<<JObj([ticker |-> JStr("AAPL"),
                                                         quantity |-> JInt(5)])>>)])),
     HttpResponse(200, JObj([Positions |-> JStr("n/a")]))}

\* what the history file may hold when the service starts
HistoryAtStart == {Missing, Corrupt, JsonFile(JList(<<>>)), JsonFile(EmptyObj)}

-----------------------------------------------------------------------------
(* app.py: the tick handler, and the stages of analyze_tick *)

Response(status, json) == [status |-> status, body |-> json]

InvalidPayload(error_message) ==
    Response(400, [result |-> "failure", message |-> <<"Invalid payload: {}", error_message>>])

ServerError(e) ==
    Response(500, [result |-> "failure", message |-> <<"Server error: {}", e>>])

\* a handler that turns away only what is not an object
RejectsOnlyNonObjects(payload) == ~IsDict(payload)

\* app.py line 71
Rejects(payload) == ~validate_tick_payload(payload).ok

Init ==
    /\ pc = "idle"
    /\ body = None
    /\ trade_id = ""
    /\ validation = NoValidation
    /\ summary = NoSummary
    /\ ai_success = FALSE
    /\ llm_result = "none"
    /\ recommendations = <<>>
    /\ updated_positions = None
    /\ trade = "not_called"
    /\ posted = None
    /\ llm_calls = 0
    /\ snapshot_writes = 0
    /\ positions_file = Missing
    /\ history_file \in HistoryAtStart
    /\ history_before = history_file
    /\ logged = 0
    /\ ticks = 0
    /\ response = NoResponse
    /\ eval_in = None
    /\ eval_out = None
    /\ StoreAtRest

\* A request arrives: app.tick down to the validation, then analyze_tick
\* down to the accounting loop.
TickReceive ==
    /\ pc \in {"idle", "done"}
    /\ ticks < MaxTicks
    /\ \E payload \in Bodies, id \in TradeIds :
          /\ body' = payload
          /\ trade_id' = id
          /\ validation' = validate_tick_payload(payload)
          /\ IF Rejects(payload)
             THEN /\ response' = InvalidPayload(validate_tick_payload(payload).msg)
                  /\ summary' = NoSummary
                  /\ pc' = "done"
             ELSE /\ response' = NoResponse
                  /\ summary' = Accounting(payload)
                  /\ pc' = "recommending"
    /\ ticks' = ticks + 1
    /\ ai_success' = FALSE
    /\ llm_result' = "none"
    /\ recommendations' = <<>>
    /\ updated_positions' = None
    /\ trade' = "not_called"
    /\ posted' = None
    /\ llm_calls' = 0
    /\ snapshot_writes' = 0
    /\ history_before' = history_file
    /\ UNCHANGED <<positions_file, history_file, logged, eval_in, eval_out, store_vars>>

\* lines 235-255: the recommendation request and the fallback
Recommend ==
    /\ pc = "recommending"
    /\ \E llm \in LlmOutcomes :
          LET r == evaluate_portfolio(llm)
          IN  /\ ai_success' = ~r.raised
              /\ llm_result' = IF r.raised THEN "raised"
                               ELSE IF r.recs = <<>> THEN "empty" ELSE "nonempty"
              /\ recommendations' = IF r.raised THEN Fallback(body) ELSE r.recs
    /\ llm_calls' = llm_calls + 1
    /\ pc' = "logging"
    /\ UNCHANGED <<body, trade_id, validation, summary, updated_positions, trade, posted,
                   snapshot_writes, positions_file, history_file, history_before,
                   logged, ticks, response, eval_in, eval_out, store_vars>>

\* lines 261-262: recommendations is non-empty, the history is rewritten
LogRecommendations ==
    /\ pc = "logging"
    /\ recommendations # <<>>
    /\ IF LogRaises(history_file)
       THEN /\ response' = ServerError("AttributeError")
            /\ pc' = "done"
            /\ UNCHANGED <<history_file, logged>>
       ELSE /\ history_file' =
                  JsonFile(log_ai_recommendations(history_file, recommendations, DateStr(body),
                                                  Get(body, "Market_Summary", JList(<<>>)).l))
            /\ logged' = logged + Len(recommendations)
            /\ pc' = "forwarding"
            /\ UNCHANGED response
    /\ UNCHANGED <<body, trade_id, validation, summary, ai_success, llm_result,
                   recommendations, updated_positions, trade, posted, llm_calls,
                   snapshot_writes, positions_file, history_before, ticks, eval_in,
                   eval_out, store_vars>>

\* lines 273-285: recommendations is empty, the payload's positions are saved
SaveWithoutRecommendations ==
    /\ pc = "logging"
    /\ recommendations = <<>>
    /\ positions_file' = JsonFile(save_positions(body))
    /\ snapshot_writes' = snapshot_writes + 1
    /\ response' = Response(200, SuccessResult(summary))
    /\ pc' = "done"
    /\ UNCHANGED <<body, trade_id, validation, summary, ai_success, llm_result,
                   recommendations, updated_positions, trade, posted, llm_calls,
                   history_file, history_before, logged, ticks, eval_in, eval_out, store_vars>>

\* line 265: make_trade
Forward ==
    /\ pc = "forwarding"
    /\ \E service \in ServiceOutcomes :
          /\ updated_positions' = make_trade(service)
          /\ trade' = IF TradeFailed(service) THEN "failed" ELSE "answered"
          /\ posted' = IF Posts(service) THEN TradePayload(trade_id, recommendations) ELSE None
    /\ pc' = "persisting"
    /\ UNCHANGED <<body, trade_id, validation, summary, ai_success, llm_result,
                   recommendations, llm_calls, snapshot_writes, positions_file,
                   history_file, history_before, logged, ticks, response, eval_in,
                   eval_out, store_vars>>

\* lines 268-285: the snapshot, and the result
Persist ==
    /\ pc = "persisting"
    /\ IF Truthy(updated_positions)
       THEN IF UpdateRaises(updated_positions)
            THEN /\ response' = ServerError("TypeError or KeyError")
                 /\ UNCHANGED <<positions_file, snapshot_writes>>
            ELSE /\ positions_file' =
                       JsonFile(update_positions_from_api(updated_positions,
                                    Get(body, "Market_Summary", JList(<<>>)).l))
                 /\ snapshot_writes' = snapshot_writes + 1
                 /\ response' = Response(200, SuccessResult(summary))
       ELSE /\ positions_file' = JsonFile(save_positions(body))
            /\ snapshot_writes' = snapshot_writes + 1
            /\ response' = Response(200, SuccessResult(summary))
    /\ pc' = "done"
    /\ UNCHANGED <<body, trade_id, validation, summary, ai_success, llm_result,
                   recommendations, updated_positions, trade, posted, llm_calls,
                   history_file, history_before, logged, ticks, eval_in, eval_out, store_vars>>

Next ==
    \/ TickReceive
    \/ Recommend
    \/ LogRecommendations
    \/ SaveWithoutRecommendations
    \/ Forward
    \/ Persist

Spec == Init /\ [][Next]_vars

-----------------------------------------------------------------------------
(* log_ai_recommendations and get_dashboard_data on their own: SpecFiles *)

\* recommendation lists that reach log_ai_recommendations (line 261: never
\* the empty list)
RecommendationLists ==
    {<<[action |-> "STAY", ticker |-> "AAPL", quantity |-> 0]>>,
     <<[action |-> "SELL", ticker |-> "AAPL", quantity |-> 5]>>,
     <<[action |-> "BUY", ticker |-> "MSFT", quantity |-> 2],
       [action |-> "HOLD", ticker |-> "AAPL", quantity |-> -1]>>}

\* an entry an earlier tick left in the history
EarlierEntry ==
    Transaction([action |-> "BUY", ticker |-> "MSFT", quantity |-> 2], JStr("2025-01-01"), <<>>)

\* what TRADING_HISTORY_FILE may hold when log_ai_recommendations opens it
HistoryFiles ==
    {Missing, Corrupt,
     JsonFile(JList(<<>>)), JsonFile(JList(<<EarlierEntry>>)),
     JsonFile(EmptyObj), JsonFile(JStr("log")), JsonFile(JNull), JsonFile(JInt(0))}

\* what POSITIONS_FILE may hold
SnapshotFiles ==
    {Missing, Corrupt, JsonFile(JList(<<>>)),
     JsonFile(JList(<<PositionRow(GoodPosition, <<GoodSummary>>)>>))}

InitFiles ==
    /\ pc = "files"
    /\ body = None
    /\ trade_id = ""
    /\ validation = NoValidation
    /\ summary = NoSummary
    /\ ai_success = FALSE
    /\ llm_result = "none"
    /\ recommendations \in RecommendationLists
    /\ updated_positions = None
    /\ trade = "not_called"
    /\ posted = None
    /\ llm_calls = 0
    /\ snapshot_writes = 0
    /\ positions_file \in SnapshotFiles
    /\ history_file \in HistoryFiles
    /\ history_before = history_file
    /\ logged = 0
    /\ ticks = 0
    /\ response = NoResponse
    /\ eval_in = None
    /\ eval_out = None
    /\ StoreAtRest

\* one call of log_ai_recommendations: it raises at history.append, the
\* file untouched, or it rewrites the file
LogCall ==
    /\ pc = "files"
    /\ log_result = "none"
    /\ IF LogRaises(history_file)
       THEN /\ log_result' = "raised"
            /\ UNCHANGED <<history_file, logged>>
       ELSE /\ history_file' =
                  JsonFile(log_ai_recommendations(history_file, recommendations, Today,
                                                  <<GoodSummary>>))
            /\ logged' = logged + Len(recommendations)
            /\ log_result' = "returned"
    /\ UNCHANGED <<pc, body, trade_id, validation, summary, ai_success, llm_result,
                   recommendations, updated_positions, trade, posted, llm_calls,
                   snapshot_writes, positions_file, history_before, ticks, response,
                   eval_in, eval_out, dashboard, loggers>>

\* one call of get_dashboard_data, before or after the log call
DashboardCall ==
    /\ pc = "files"
    /\ dashboard = None
    /\ dashboard' = get_dashboard_data(positions_file, history_file)
    /\ UNCHANGED <<pc, body, trade_id, validation, eval_in, eval_out, pipeline_vars,
                   log_result, loggers>>

NextFiles ==
    \/ LogCall
    \/ DashboardCall

SpecFiles == InitFiles /\ [][NextFiles]_vars

-----------------------------------------------------------------------------
(* Two requests inside log_ai_recommendations at once: SpecRace *)
(* The function takes no lock; its three steps (load the file, append in  *)
(* memory, rewrite the file) of two callers interleave freely.            *)

\* what TRADING_HISTORY_FILE may hold when the two requests arrive
RaceHistoryFiles ==
    {Missing, Corrupt, JsonFile(JList(<<>>)), JsonFile(JList(<<EarlierEntry>>)),
     JsonFile(EmptyObj)}

Entered(recs) == [pc |-> "entered", recommendations |-> recs, loaded |-> None, history |-> None]

InitRace ==
    /\ pc = "race"
    /\ body = None
    /\ trade_id = ""
    /\ validation = NoValidation
    /\ summary = NoSummary
    /\ ai_success = FALSE
    /\ llm_result = "none"
    /\ recommendations = <<>>
    /\ updated_positions = None
    /\ trade = "not_called"
    /\ posted = None
    /\ llm_calls = 0
    /\ snapshot_writes = 0
    /\ positions_file = Missing
    /\ history_file \in RaceHistoryFiles
    /\ history_before = history_file
    /\ logged = 0
    /\ ticks = 0
    /\ response = NoResponse
    /\ eval_in = None
    /\ eval_out = None
    /\ log_result = "none"
    /\ dashboard = None
    /\ loggers \in [Loggers -> {Entered(recs) : recs \in RecommendationLists}]

\* lines 71-78: the file is read whole
LogRead(t) ==
    /\ loggers[t].pc = "entered"
    /\ loggers' = [loggers EXCEPT ![t].pc = "loaded",
                                  ![t].loaded = LoadHistory(history_file),
                                  ![t].history = LoadHistory(history_file)]
    /\ UNCHANGED <<pc, body, trade_id, validation, eval_in, eval_out, pipeline_vars,
                   log_result, dashboard>>

\* lines 81-99: the entries are appended in memory, or append raises
LogAppend(t) ==
    /\ loggers[t].pc = "loaded"
    /\ loggers' =
          IF ~IsList(loggers[t].history)
          THEN [loggers EXCEPT ![t].pc = "raised"]
          ELSE [loggers EXCEPT ![t].pc = "appended",
                               ![t].history = Appended(loggers[t].history,
                                                       loggers[t].recommendations,
                                                       Today, <<GoodSummary>>)]
    /\ UNCHANGED <<pc, body, trade_id, validation, eval_in, eval_out, pipeline_vars,
                   log_result, dashboard>>

\* lines 102-103: the file is rewritten whole
LogWrite(t) ==
    /\ loggers[t].pc = "appended"
    /\ history_file' = JsonFile(loggers[t].history)
    /\ logged' = logged + Len(loggers[t].recommendations)
    /\ loggers' = [loggers EXCEPT ![t].pc = "returned"]
    /\ UNCHANGED <<pc, body, trade_id, validation, summary, ai_success, llm_result,
                   recommendations, updated_positions, trade, posted, llm_calls,
                   snapshot_writes, positions_file, history_before, ticks, response,
                   eval_in, eval_out, log_result, dashboard>>

NextRace ==
    \/ \E t \in Loggers : LogRead(t)
    \/ \E t \in Loggers : LogAppend(t)
    \/ \E t \in Loggers : LogWrite(t)

SpecRace == InitRace /\ [][NextRace]_vars

-----------------------------------------------------------------------------
(* Claims about the tick pipeline *)

\* a JSON number, as the data model has it: booleans are not numbers
IsJsonNumber(v) == v.jt \in {"int", "float"}
IsJsonInteger(v) == v.jt = "int"

PositionsOf(payload) == payload.o.Positions.l
SummaryOf(payload) == payload.o.Market_Summary.l

\* one STAY of quantity 0 per position whose ticker is not CASH, in order
StayForNonCash(positions) ==
    LET NotCash(p) == p.o.ticker.s # "CASH"
        kept == SelectSeq(positions, NotCash)
    IN  [i \in 1..Len(kept) |-> [action |-> "STAY", ticker |-> kept[i].o.ticker.s, quantity |-> 0]]

\* C1: when the recommendation request raises or returns an empty list, the
\* recommendations that go on to logging and forwarding are the synthetic
\* fallback: one STAY 0 per non-CASH position, in position order.
C1_FallbackOnFailureOrEmptyResult ==
    (pc = "logging" /\ llm_result \in {"raised", "empty"}) =>
        recommendations = StayForNonCash(PositionsOf(body))

\* C2: a tick whose body the validator rejects ends at once with a 400
\* failure response; no LLM request, no trade-execution call, and neither
\* file written.
C2_RejectedPayloadEndsAt400 ==
    (pc # "idle" /\ ~validation.ok) =>
        /\ pc = "done"
        /\ response.status = 400
        /\ response.body.result = "failure"
        /\ llm_calls = 0
        /\ trade = "not_called"
        /\ posted = None
        /\ snapshot_writes = 0
        /\ history_file = history_before

\* a rejected second tick that left the files of the first as they were
C2_Witness ==
    /\ pc = "done"
    /\ ~validation.ok
    /\ IsDict(body)
    /\ response.status = 400
    /\ ticks = 2
    /\ positions_file # Missing
    /\ logged > 0

\* the rows are the given positions, in order, each with a price of its
\* ticker in the summary, or its purchase price when the summary has none
RowsFollow(rows, positions, market_summary) ==
    /\ Len(rows) = Len(positions)
    /\ \A i \in 1..Len(rows) :
          /\ DOMAIN rows[i].o =
                {"ticker", "quantity", "purchase_price", "current_price", "unrealized_pnl"}
          /\ rows[i].o.ticker = positions[i].o.ticker
          /\ rows[i].o.quantity = positions[i].o.quantity
          /\ rows[i].o.purchase_price = positions[i].o.purchase_price
          /\ IF \E j \in 1..Len(market_summary) :
                    market_summary[j].o.ticker = positions[i].o.ticker
             THEN \E j \in 1..Len(market_summary) :
                    /\ market_summary[j].o.ticker = positions[i].o.ticker
                    /\ rows[i].o.current_price = market_summary[j].o.current_price
             ELSE rows[i].o.current_price = positions[i].o.purchase_price

\* (current_price - purchase_price) * quantity of a row, in 1/Scale^2
RawPnl(row) ==
    (Hundredths(row.o.current_price) - Hundredths(row.o.purchase_price))
        * Hundredths(row.o.quantity)

ExactPnl(row) == Hundredths(row.o.unrealized_pnl) * Scale = RawPnl(row)

\* unrealized_pnl is a multiple of 0.01 nearest to the product
TwoDecimalPnl(row) ==
    LET d == Hundredths(row.o.unrealized_pnl) * Scale - RawPnl(row)
    IN  2 * d <= Scale /\ 2 * d >= -Scale

\* C5 as stated: after a tick whose trade-execution call failed the tick
\* still returns, and the snapshot holds one row per payload position with
\* unrealized_pnl exactly (current_price - purchase_price) * quantity.
C5_FailedTradeSnapshotHasExactPnl ==
    (pc = "done" /\ trade = "failed") =>
        /\ response.status = 200
        /\ positions_file.ft = "json"
        /\ IsList(positions_file.doc)
        /\ RowsFollow(positions_file.doc.l, PositionsOf(body), SummaryOf(body))
        /\ \A i \in 1..Len(positions_file.doc.l) : ExactPnl(positions_file.doc.l[i])

\* C5 amended: as C5, with unrealized_pnl the product rounded to two
\* decimals.
C5_FailedTradeSnapshotIsPayloadDerived ==
    (pc = "done" /\ trade = "failed") =>
        /\ response.status = 200
        /\ positions_file.ft = "json"
        /\ IsList(positions_file.doc)
        /\ RowsFollow(positions_file.doc.l, PositionsOf(body), SummaryOf(body))
        /\ \A i \in 1..Len(positions_file.doc.l) : TwoDecimalPnl(positions_file.doc.l[i])

\* a second tick, its trade failed, and a position with a summary price
\* next to rows of another size than the first tick's
C5_Witness ==
    /\ pc = "done"
    /\ trade = "failed"
    /\ ticks = 2
    /\ Len(PositionsOf(body)) = 2
    /\ \E i \in 1..2 : ~ExactPnl(positions_file.doc.l[i])
    /\ \E i \in 1..2 : positions_file.doc.l[i].o.current_price
                          # positions_file.doc.l[i].o.purchase_price

\* positions the snapshot can be computed from
WellFormedPositions(list) ==
    \A i \in 1..Len(list) :
        /\ IsDict(list[i])
        /\ {"ticker", "quantity", "purchase_price"} \subseteq DOMAIN list[i].o
        /\ IsStr(list[i].o.ticker)
        /\ IsJsonNumber(list[i].o.quantity)
        /\ IsJsonNumber(list[i].o.purchase_price)

\* C6: when the execution service answers 200 with a Positions list of any
\* length, the empty list included, the snapshot this tick writes is
\* derived from that list and not from the payload's Positions.
C6_AnsweredListIsPersisted ==
    (/\ pc = "done"
     /\ trade = "answered"
     /\ IsList(updated_positions)
     /\ WellFormedPositions(updated_positions.l)) =>
        /\ positions_file.ft = "json"
        /\ IsList(positions_file.doc)
        /\ RowsFollow(positions_file.doc.l, updated_positions.l, SummaryOf(body))

HistoryEntries(file) ==
    IF file.ft = "json" /\ IsList(file.doc) THEN file.doc.l ELSE <<>>

IsPrefix(a, b) == Len(a) <= Len(b) /\ SubSeq(b, 1, Len(a)) = a

\* C7: with ticks one after another from a missing or empty history file,
\* the history is a list as long as the recommendations logged so far, and
\* every step keeps the earlier history as a prefix.
C7_HistoryIsAppendOnly ==
    /\ [](Len(HistoryEntries(history_file)) = logged)
    /\ [][IsPrefix(HistoryEntries(history_file), HistoryEntries(history_file'))]_vars

\* the second tick has appended to what the first one logged
C7_Witness ==
    /\ ticks = 2
    /\ pc = "forwarding"
    /\ Len(HistoryEntries(history_before)) > 0
    /\ Len(HistoryEntries(history_file)) > Len(HistoryEntries(history_before))
    /\ Len(HistoryEntries(history_file)) = logged

\* the history file can be read as a list, or is treated as empty
UsableHistory(file) == file.ft \in {"missing", "corrupt"} \/ IsList(file.doc)

\* C8: every tick that passed validation ends with result "success" and
\* with the snapshot overwritten, whatever the LLM and the execution
\* service answered.
C8_ValidatedTickEndsInSuccess ==
    (pc = "done" /\ validation.ok /\ UsableHistory(history_before)) =>
        /\ response.status = 200
        /\ response.body.result = "success"
        /\ snapshot_writes = 1

IntegerValued(v) == Hundredths(v) % Scale = 0

IntegerInputs(payload) ==
    /\ \A i \in 1..Len(PositionsOf(payload)) :
          /\ IntegerValued(PositionsOf(payload)[i].o.quantity)
          /\ IntegerValued(PositionsOf(payload)[i].o.purchase_price)
    /\ \A j \in 1..Len(SummaryOf(payload)) :
          IntegerValued(SummaryOf(payload)[j].o.current_price)

\* the positions whose ticker has a summary entry
Matched(payload) ==
    {i \in 1..Len(PositionsOf(payload)) :
        \E j \in 1..Len(SummaryOf(payload)) :
            SummaryOf(payload)[j].o.ticker = PositionsOf(payload)[i].o.ticker}

\* the summary price of position i: that of the last entry of its ticker
SummaryPrice(payload, i) ==
    LET js == {j \in 1..Len(SummaryOf(payload)) :
                  SummaryOf(payload)[j].o.ticker = PositionsOf(payload)[i].o.ticker}
    IN  SummaryOf(payload)[CHOOSE j \in js : \A k \in js : k <= j].o.current_price

RECURSIVE SumOfPnl(_, _)
\* the sum over the positions I of (current_price - purchase_price) * quantity,
\* in hundredths
SumOfPnl(payload, I) ==
    IF I = {} THEN 0
    ELSE LET i == CHOOSE x \in I : TRUE
             p == PositionsOf(payload)[i]
         IN  ((Hundredths(SummaryPrice(payload, i)) - Hundredths(p.o.purchase_price))
                 * Hundredths(p.o.quantity)) \div Scale
             + SumOfPnl(payload, I \ {i})

Actions == {"SELL", "STAY", "BUY"}

\* C10: every recommendation logged to the history and posted to the
\* execution service has an action among SELL, STAY, BUY and a quantity
\* >= 0, whatever the arguments of the tool call.
C10_LoggedAndPostedAreRecommendations ==
    /\ pc \in {"forwarding", "persisting"} =>
          \A i \in 1..Len(recommendations) :
              recommendations[i].action \in Actions /\ recommendations[i].quantity >= 0
    /\ posted # None =>
          \A i \in 1..Len(posted.trades) :
              posted.trades[i].action \in Actions /\ posted.trades[i].quantity >= 0

-----------------------------------------------------------------------------
(* Claim about the validator *)

PositionsRule(v) ==
    /\ Has(v, "Positions") /\ IsList(v.o.Positions) /\ Len(v.o.Positions.l) > 0
    /\ \A i \in 1..Len(v.o.Positions.l) :
          LET e == v.o.Positions.l[i]
          IN  /\ IsDict(e)
              /\ {"ticker", "quantity", "purchase_price"} \subseteq DOMAIN e.o
              /\ IsStr(e.o.ticker)
              /\ IsJsonNumber(e.o.quantity)
              /\ IsJsonNumber(e.o.purchase_price)

MarketSummaryRule(v) ==
    /\ Has(v, "Market_Summary") /\ IsList(v.o.Market_Summary)
    /\ Len(v.o.Market_Summary.l) > 0
    /\ \A i \in 1..Len(v.o.Market_Summary.l) :
          LET e == v.o.Market_Summary.l[i]
          IN  /\ IsDict(e)
              /\ {"ticker", "current_price", "category"} \subseteq DOMAIN e.o
              /\ IsStr(e.o.ticker)
              /\ IsJsonNumber(e.o.current_price)
              /\ IsStr(e.o.category)

MarketHistoryRule(v) ==
    /\ Has(v, "market_history") /\ IsList(v.o.market_history)
    /\ Len(v.o.market_history.l) > 0
    /\ \A i \in 1..Len(v.o.market_history.l) :
          LET e == v.o.market_history.l[i]
          IN  /\ IsDict(e)
              /\ {"ticker", "price", "day"} \subseteq DOMAIN e.o
              /\ IsStr(e.o.ticker)
              /\ IsJsonNumber(e.o.price)
              /\ (IsJsonInteger(e.o.day) \/ IsStr(e.o.day))

DayRule(v) == Has(v, "DAY") => IsStr(v.o.DAY)

\* the first rule the value violates, in the documented order
FirstViolatedRule(v) ==
    IF ~IsDict(v) THEN "object"
    ELSE IF ~PositionsRule(v) THEN "Positions"
    ELSE IF ~MarketSummaryRule(v) THEN "Market_Summary"
    ELSE IF ~MarketHistoryRule(v) THEN "market_history"
    ELSE IF ~DayRule(v) THEN "DAY"
    ELSE "none"

\* the rule a message of the validator speaks of
RuleOfMessage(m) ==
    IF m = <<"">> THEN "none"
    ELSE IF m = <<"Payload must be a JSON object">> THEN "object"
    ELSE IF m = <<"DAY must be a string in 'yyyy-mm-dd' format">> THEN "DAY"
    ELSE IF m[1] \in {"Missing required field: Positions", "Positions must be a list",
                      "Positions must be a non-empty list",
                      "Position at index {i} must be an object",
                      "Position at index {i} missing 'ticker'",
                      "Position at index {i} missing 'quantity'",
                      "Position at index {i} missing 'purchase_price'",
                      "Position at index {i}: 'ticker' must be a string",
                      "Position at index {i}: 'quantity' must be a number",
                      "Position at index {i}: 'purchase_price' must be a number"}
         THEN "Positions"
    ELSE IF m[1] \in {"Missing required field: Market_Summary",
                      "Market_Summary must be a list",
                      "Market Summary must be a non-empty list",
                      "Market_Summary item at index {i} must be an object",
                      "Market_Summary at index {i} missing 'ticker'",
                      "Market_Summary at index {i} missing 'current_price'",
                      "Market_Summary at index {i} missing 'category'",
                      "Market_Summary at index {i}: 'ticker' must be a string",
                      "Market_Summary at index {i}: 'current_price' must be a number",
                      "Market_Summary at index {i}: 'category' must be a string"}
         THEN "Market_Summary"
    ELSE "market_history"

\* C3: for every JSON value the validator returns (True, "") exactly when
\* the value is an object whose three sections are present, non-empty lists
\* of well-typed objects (numbers being JSON numbers) and whose DAY, if
\* present, is a string; otherwise it returns (False, message) with the
\* message of the first violated rule in the documented order.
C3_ValidatorDecidesTheDocumentedRules ==
    pc = "validated" =>
        /\ validation.ok <=> FirstViolatedRule(body) = "none"
        /\ validation.ok => validation.msg = <<"">>
        /\ RuleOfMessage(validation.msg) = FirstViolatedRule(body)


-----------------------------------------------------------------------------
(* Claim about evaluate_portfolio *)

\* the normalized form of an item: action uppercased, ticker trimmed,
\* quantity as integer, 0 where it cannot be coerced
NormalForm(item) ==
    [action |-> Upper(PyStr(Get(item, "action", JStr("")))),
     ticker |-> Strip(PyStr(Get(item, "ticker", JStr("")))),
     quantity |-> IF PyInt(Get(item, "quantity", JInt(0))).ok
                  THEN PyInt(Get(item, "quantity", JInt(0))).n ELSE 0]

\* the response is one set_recommendations call carrying a list
OneListCall(llm) ==
    /\ llm.kind = "response"
    /\ Len(llm.tool_calls) = 1
    /\ llm.tool_calls[1].type = "function"
    /\ llm.tool_calls[1].name = "set_recommendations"
    /\ llm.tool_calls[1].arguments.jt = "obj"
    /\ Has(llm.tool_calls[1].arguments, "recommendations")
    /\ IsList(llm.tool_calls[1].arguments.o.recommendations)

ItemsOf(llm) == llm.tool_calls[1].arguments.o.recommendations.l

\* C4: normalization is per item: a malformed item in the list of a
\* set_recommendations call does not drop the batch; every object item of
\* the list is returned normalized, an unparseable quantity as 0.
C4_MalformedItemKeepsTheBatch ==
    (pc = "evaluated" /\ OneListCall(eval_in)) =>
        \A i \in 1..Len(ItemsOf(eval_in)) :
            IsDict(ItemsOf(eval_in)[i]) =>
                \E j \in 1..Len(eval_out.recs) :
                    eval_out.recs[j] = NormalForm(ItemsOf(eval_in)[i])

-----------------------------------------------------------------------------
(* Claim about the history and snapshot files *)

\* the file holds a JSON list
HoldsList(file) == file.ft = "json" /\ IsList(file.doc)

\* the entries one call appends
EntriesFor(recs, date_str, market_summary) ==
    [i \in 1..Len(recs) |-> Transaction(recs[i], date_str, market_summary)]

\* C11: when the history file cannot be used as a list (missing, unreadable,
\* or JSON that is not a list), log_ai_recommendations returns and the file
\* then holds exactly the entries of this call; and get_dashboard_data gives
\* empty collections for a missing or unreadable file.
C11_UnusableHistoryIsTreatedAsEmpty ==
    /\ (log_result # "none" /\ ~HoldsList(history_before))
          => /\ log_result = "returned"
             /\ history_file =
                    JsonFile(JList(EntriesFor(recommendations, Today, <<GoodSummary>>)))
    /\ dashboard # None
          => /\ (history_file.ft \in {"missing", "corrupt"})
                    => dashboard.trading_history = JList(<<>>)
             /\ (positions_file.ft \in {"missing", "corrupt"})
                    => dashboard.positions = JList(<<>>)

-----------------------------------------------------------------------------
(* Claim about overlapping calls of log_ai_recommendations *)

\* both requests have rewritten the file
BothReturned == \A t \in Loggers : loggers[t].pc = "returned"

\* the two requests loaded the same history: the second read came before
\* the first write
ReadsOverlapped == loggers["tick-1"].loaded = loggers["tick-2"].loaded

\* fewer entries in the file than were there at the start plus those the
\* two requests logged
LostUpdate ==
    Len(HistoryEntries(history_file)) < Len(HistoryEntries(history_before)) + logged

\* C12: with no lock around read / append / rewrite, two requests that both
\* read before either writes lose the entries of the first writer: the file
\* ends shorter than the sum of what the two logged.  When one request
\* reads only after the other has written (the serialized order), nothing
\* is lost.
C12_LostUpdateExactlyWhenReadsOverlap ==
    BothReturned =>
        IF ReadsOverlapped
        THEN LostUpdate
        ELSE Len(HistoryEntries(history_file))
                = Len(HistoryEntries(history_before)) + logged

\* both returned, the file holds the earlier entry and the entries of
\* tick-2 only, those of tick-1 are gone
C12_Witness ==
    /\ BothReturned
    /\ LostUpdate
    /\ history_before = JsonFile(JList(<<EarlierEntry>>))
    /\ loggers["tick-1"].recommendations # loggers["tick-2"].recommendations
    /\ logged = Len(loggers["tick-1"].recommendations) + Len(loggers["tick-2"].recommendations)
    /\ history_file = JsonFile(loggers["tick-2"].history)
    /\ Len(history_file.doc.l) = 1 + Len(loggers["tick-2"].recommendations)

-----------------------------------------------------------------------------
(* Claim about several tool calls in one response *)

\* a tool call of the expected name
Matches(call) == call.type = "function" /\ call.name = "set_recommendations"

\* a matching call whose arguments hold a list of items that all normalize
CarriesItems(call) ==
    /\ Matches(call)
    /\ call.arguments.jt = "obj"
    /\ Has(call.arguments, "recommendations")
    /\ IsList(call.arguments.o.recommendations)
    /\ \A k \in 1..Len(call.arguments.o.recommendations.l) :
          LET item == call.arguments.o.recommendations.l[k]
          IN  IsDict(item) /\ PyInt(Get(item, "quantity", JInt(0))).ok

\* the position of the first matching call of the response
FirstMatching(calls) ==
    CHOOSE i \in 1..Len(calls) :
        Matches(calls[i]) /\ \A j \in 1..(i - 1) : ~Matches(calls[j])

\* C13: of the set_recommendations calls of a response, the first in
\* response order gives the list that evaluate_portfolio returns; later
\* matching calls do not replace it and calls of another name are ignored.
C13_FirstMatchingCallWins ==
    (/\ pc = "evaluated"
     /\ eval_in.kind = "response"
     /\ \E i \in 1..Len(eval_in.tool_calls) : Matches(eval_in.tool_calls[i]))
    => LET first == eval_in.tool_calls[FirstMatching(eval_in.tool_calls)]
       IN  CarriesItems(first)
           => eval_out.recs =
                 [k \in 1..Len(first.arguments.o.recommendations.l) |->
                     NormalForm(first.arguments.o.recommendations.l[k])]

-----------------------------------------------------------------------------
(* Claims about the order of the stages and about what is posted *)

\* the history file holds what it held when the tick began, followed by
\* one entry per recommendation of this tick
ThisTickLogged ==
    HistoryEntries(history_file) =
        HistoryEntries(history_before)
        \o EntriesFor(recommendations, DateStr(body), SummaryOf(body))

\* the tick is in a stage of analyze_tick that comes before the snapshot
BeforeSnapshot == pc \in {"recommending", "logging", "forwarding", "persisting"}

\* C14: the stages of a tick come in the order Recommending, Logging,
\* Forwarding, Persisting and none is entered twice: the recommendation
\* request is made once, this tick's history entries are written before
\* the trade call is issued and stay recorded when it fails, the snapshot
\* is written only after the call returned, and exactly once per tick.
C14_StagesInFixedOrder ==
    /\ llm_calls <= 1
    /\ pc \in {"logging", "forwarding", "persisting"} => llm_calls = 1
    /\ (pc \in {"forwarding", "persisting"} \/ trade # "not_called") => ThisTickLogged
    /\ (pc = "done" /\ trade = "failed") => ThisTickLogged
    /\ BeforeSnapshot => snapshot_writes = 0
    /\ (snapshot_writes > 0 /\ recommendations # <<>>) => trade # "not_called"
    /\ snapshot_writes <= 1
    /\ (pc = "done" /\ validation.ok /\ UsableHistory(history_before))
          => snapshot_writes = 1

\* the entries this tick appended to the history
AppendedByTick ==
    SubSeq(HistoryEntries(history_file), Len(HistoryEntries(history_before)) + 1,
           Len(HistoryEntries(history_file)))

\* trade i and entry i agree: same action and ticker, and the entry has a
\* quantity, that of the trade, exactly when the trade's quantity is > 0
Corresponds(trades, entries) ==
    /\ Len(trades) = Len(entries)
    /\ \A i \in 1..Len(trades) :
          /\ trades[i].action = entries[i].action
          /\ trades[i].ticker = entries[i].ticker
          /\ ("quantity" \in DOMAIN entries[i]) <=> (trades[i].quantity > 0)
          /\ ("quantity" \in DOMAIN entries[i]) => entries[i].quantity = trades[i].quantity

\* a tick whose recommendation set is empty neither appends nor calls
EmptySetDoesNothing ==
    (pc = "done" /\ validation.ok /\ recommendations = <<>>)
        => /\ history_file = history_before
           /\ trade = "not_called"
           /\ posted = None

\* C15 as stated: in every tick that reached make_trade, the trades posted
\* correspond one to one, in order, to the history entries the tick
\* appended; a tick with no recommendations neither appends nor calls.
C15_PostedTradesMatchAppendedEntries ==
    /\ trade # "not_called"
          => Corresponds(IF posted = None THEN <<>> ELSE posted.trades, AppendedByTick)
    /\ EmptySetDoesNothing

\* C15 amended: in every tick in which make_trade posts (an api key is
\* configured), the trades posted correspond one to one, in order, to the
\* history entries the tick appended; without an api key the entries are
\* appended and nothing is posted; a tick with no recommendations neither
\* appends nor calls.
C15_TradesThatArePostedMatchAppendedEntries ==
    /\ posted # None => Corresponds(posted.trades, AppendedByTick)
    /\ (trade # "not_called" /\ posted = None)
          => AppendedByTick = EntriesFor(recommendations, DateStr(body), SummaryOf(body))
    /\ EmptySetDoesNothing

\* a second tick has posted two trades, one of quantity 2 and one of
\* quantity -1, after an earlier tick had logged
C15_Witness ==
    /\ pc = "persisting"
    /\ posted # None
    /\ Len(posted.trades) = 2
    /\ posted.trades[1].quantity > 0
    /\ posted.trades[2].quantity <= 0
    /\ Len(HistoryEntries(history_before)) > 0
    /\ Len(AppendedByTick) = 2
    /\ "quantity" \in DOMAIN AppendedByTick[1]
    /\ "quantity" \notin DOMAIN AppendedByTick[2]

=============================================================================
